---- MODULE Spec2Model ----
(***************************************************************************)
(* ClickUp Live Dashboard server (src/unnamed/part_001, the revision with  *)
(* the start-preserving merge): the process-wide cache, refreshCache and   *)
(* its three callers (startup, scheduledRefresh, POST /api/refresh), the   *)
(* manual-refresh limiter and GET /api/status.                             *)
(*                                                                         *)
(* One action is one run of JavaScript between two suspension points: the  *)
(* code from the arrival of an event (an HTTP request, a timer, the answer *)
(* of an upstream call) up to the next await on an upstream call.          *)
(* Times are milliseconds, as Date.now() returns them.                     *)
(***************************************************************************)
EXTENDS Integers, Sequences, FiniteSets, TLC

----------------------------------------------------------------------------
(* Program constants                                                       *)

\* parseInt(process.env.POLL_INTERVAL_MS || '30000', 10)
POLL_INTERVAL_MS == 30000

\* parseInt(process.env.MANUAL_REFRESH_MAX_PER_HOUR || '20', 10); the model
\* runs the server with the variable set to 2.
MANUAL_REFRESH_MAX_PER_HOUR == 2

\* 60 * 60 * 1000 in pruneManualCalls and manualResetInMs
HourMs == 60 * 60 * 1000

\* 5 * 60_000 in scheduledRefresh
MaxPollDelayMs == 5 * 60000

\* 10 * 60 * 1000 in the mock snapshot
MockStartAgoMs == 10 * 60 * 1000

\* const limit = 5 in fetchRunningTimersForAll
limit == 5

----------------------------------------------------------------------------
(* Bounds of the model                                                     *)

\* Date.now() when the process starts.
StartNow == 2 * HourMs

\* The clock is followed for MaxHours hours after the start ...
MaxHours == 1

\* ... and for MaxSkewMs single milliseconds after each full hour.
MaxSkewMs == 1

\* Largest team of the fan-out under every completion order.
MaxMembers == 6

\* Largest team of the fan-out under a uniform probe latency.
MaxLatencyMembers == 12

\* The latency of a detector call, in ms, where it is uniform.
Latency == 1000

\* Longest run of consecutive failures of the scheduled refresh the
\* backoff formula is compared on.
MaxFails == 5

\* HTTP clients that issue POST /api/refresh; one more than the quota, so
\* that the quota can be exceeded.
NumClients == MANUAL_REFRESH_MAX_PER_HOUR + 1

\* Ids of the users the upstream team may contain.
UserIds == {"1", "2"}

\* null, as the value of MY_USER_ID and of a start.
NullId == "null"
Null == 0 - 1

\* Start times the upstream reports for a running entry; Null stands for an
\* entry without a usable start (entryStart(active) || null).
StartValues == {Null, 1000, 2000}

\* Values of the retry-after header (seconds) of a failed /team call;
\* NoHeader stands for an error without the header.
NoHeader == Null
RetryAfterSecs == {NoHeader, 45, 300}

----------------------------------------------------------------------------
(* Helpers                                                                 *)

Max(a, b) == IF a >= b THEN a ELSE b
Min(a, b) == IF a <= b THEN a ELSE b

Range(s) == {s[i] : i \in DOMAIN s}

\* JavaScript truthiness of a start value: null, 0 and NaN are falsy.
Truthy(s) == s # Null /\ s # 0

\* obj[key] = value on a plain object.
Put(map, key, value) ==
  [k \in DOMAIN map \cup {key} |-> IF k = key THEN value ELSE map[k]]

\* The member lists /team can answer: every user at most once.
Rosters ==
  {s \in UNION {[1..n -> UserIds] : n \in 0..Cardinality(UserIds)} :
     \A i, j \in DOMAIN s : s[i] = s[j] => i = j}

\* The callers of refreshCache: the clients of POST /api/refresh, and the
\* startup code followed by the scheduledRefresh chain (caller 0).
Clients == 1..NumClients
Sched == 0
Procs == {Sched} \cup Clients

----------------------------------------------------------------------------
(* Manual-refresh limiter (pure parts)                                     *)

\* A pruning that drops only the entries older than a day.
PruneManualCallsByDay(calls, t) ==
  SelectSeq(calls, LAMBDA x : x >= t - 24 * HourMs)

\* pruneManualCalls at Date.now() = t: keeps the entries t' >= t - 1h.
PruneManualCalls(calls, t) ==
  SelectSeq(calls, LAMBDA x : x >= t - HourMs)

\* manualRemaining off by one: the quota is taken to be used up only when
\* the log holds more than MANUAL_REFRESH_MAX_PER_HOUR entries.
ManualRemainingLax(calls, t) ==
  Max(0, MANUAL_REFRESH_MAX_PER_HOUR + 1 - Len(PruneManualCalls(calls, t)))

\* manualRemaining at Date.now() = t (its pruning is applied by the caller).
ManualRemaining(calls, t) ==
  Max(0, MANUAL_REFRESH_MAX_PER_HOUR - Len(PruneManualCalls(calls, t)))

\* manualResetInMs at Date.now() = t.
ManualResetInMs(calls, t) ==
  LET pruned == PruneManualCalls(calls, t)
  IN  IF Len(pruned) = 0 THEN 0
      ELSE Max(0, (pruned[1] + HourMs) - t)

----------------------------------------------------------------------------
(* Snapshot construction (pure parts)                                      *)

\* let cache = { lastUpdated: 0, members: [], ... }
EmptyCache ==
  [lastUpdated |-> 0, members |-> <<>>, workingUserIds |-> {},
   workingByUserId |-> <<>>]

\* What fetchActiveForUser returns for an active member.
ActiveTimerInfo(userId, start) ==
  [userId |-> userId, taskId |-> "t", taskName |-> "Working", start |-> start]

\* The control flow of fetchActiveForUser. `list`: the listing call throws
\* ("throw"), holds an active entry ("active") or none ("none"); `mine`:
\* MY_USER_ID is set and is the member's id; `current`: the same for the
\* /time_entries/current call; `details`: fetchEntryDetails returns data
\* ("data") or null, on an error or a missing id ("null"). The result is
\* what the call does (throw, return null, return an ActiveTimerInfo) and
\* the entry the info is built from.
DetectorResult(list, mine, current, details) ==
  IF list = "throw" THEN [kind |-> "throw", from |-> "none"]
  ELSE IF list = "active" THEN [kind |-> "active", from |-> "list"]
  ELSE IF mine /\ current = "active"
       THEN [kind |-> "active",
             from |-> IF details = "data" THEN "details" ELSE "current"]
  ELSE [kind |-> "null", from |-> "none"]

\* The outcomes of one fetchActiveForUser call: null (idle), a thrown
\* error, or an ActiveTimerInfo with one of the start values.
ProbeOutcomes ==
  {[kind |-> "null", start |-> Null], [kind |-> "throw", start |-> Null]}
    \cup {[kind |-> "active", start |-> s] : s \in StartValues}

\* prev?.start for the entry of userId in map.
PrevStart(map, userId) ==
  IF userId \in DOMAIN map THEN map[userId].start ELSE Null

\* The merge loop without the carry-over of the previous start.
MergeOneNoCarry(map, r) == Put(map, r.userId, r)

\* The merge loop preferring the previous start to the fresh one.
MergeOneKeepsOld(map, r) ==
  LET prev == PrevStart(map, r.userId)
  IN  Put(map, r.userId, IF Truthy(prev) THEN [r EXCEPT !.start = prev] ELSE r)

\* One turn of the merge loop: r.start = prev.start when r has none.
MergeOne(map, r) ==
  LET prev == PrevStart(map, r.userId)
      r2   == IF ~Truthy(r.start) /\ Truthy(prev)
              THEN [r EXCEPT !.start = prev] ELSE r
  IN  Put(map, r.userId, r2)

\* const workingByUserId = { ...cache.workingByUserId }; for (r of running)
RECURSIVE MergeRunning(_, _)
MergeRunning(map, running) ==
  IF running = <<>> THEN map
  ELSE MergeRunning(MergeOne(map, Head(running)), Tail(running))

\* The snapshot built with the member list of the previous snapshot.
BuildSnapshotOldMembers(c, t, members, running) ==
  [lastUpdated     |-> t,
   members         |-> c.members,
   workingUserIds  |-> {running[i].userId : i \in DOMAIN running},
   workingByUserId |-> MergeRunning(c.workingByUserId, running)]

\* The snapshot the non-mock refreshCache assigns to cache.
BuildSnapshot(c, t, members, running) ==
  [lastUpdated     |-> t,
   members         |-> members,
   workingUserIds  |-> {running[i].userId : i \in DOMAIN running},
   workingByUserId |-> MergeRunning(c.workingByUserId, running)]

\* A mock branch that leaves the member list as it was.
MockRefreshNoMembers(c, t) ==
  [c EXCEPT
     !.workingUserIds = {"2"},
     !.workingByUserId =
        [u \in {"2"} |-> [taskId |-> "TASK-123", taskName |-> "Design homepage",
                          start |-> t - MockStartAgoMs]],
     !.lastUpdated = t]

\* The mock branch of refreshCache: the four fields of the existing cache
\* object are assigned one after the other, without a suspension point.
MockRefresh(c, t) ==
  [c EXCEPT
     !.members = <<"1", "2", "3">>,
     !.workingUserIds = {"2"},
     !.workingByUserId =
        [u \in {"2"} |-> [taskId |-> "TASK-123", taskName |-> "Design homepage",
                          start |-> t - MockStartAgoMs]],
     !.lastUpdated = t]

----------------------------------------------------------------------------
(* Scheduler backoff (pure part)                                           *)

\* A backoff that adds the base interval instead of doubling the delay.
BackoffAdditive(delay, hdr) ==
  LET hdrMs      == IF hdr = NoHeader THEN 0 ELSE hdr * 1000
      retryAfter == IF hdrMs # 0 THEN hdrMs ELSE delay + POLL_INTERVAL_MS
  IN  Min(Max(retryAfter, POLL_INTERVAL_MS), MaxPollDelayMs)

\* A backoff capped at ten minutes.
BackoffTenMinutes(delay, hdr) ==
  LET hdrMs      == IF hdr = NoHeader THEN 0 ELSE hdr * 1000
      retryAfter == IF hdrMs # 0 THEN hdrMs ELSE 2 * delay
  IN  Min(Max(retryAfter, POLL_INTERVAL_MS), 2 * MaxPollDelayMs)

\* Number(headers['retry-after']) * 1000 || 2 * pollDelay, clamped.
Backoff(delay, hdr) ==
  LET hdrMs      == IF hdr = NoHeader THEN 0 ELSE hdr * 1000
      retryAfter == IF hdrMs # 0 THEN hdrMs ELSE 2 * delay
  IN  Min(Max(retryAfter, POLL_INTERVAL_MS), MaxPollDelayMs)

----------------------------------------------------------------------------
(* Time entries and the detector (pure parts)                              *)

\* Number(x) of a value that is no number.
NaN == 0 - 2

\* JavaScript values of the fields of a time entry: undefined, null, the
\* number n, the number NaN, the string holding the decimal text of n, and
\* a string that holds no number.
Undef == [t |-> "undefined", n |-> 0]
JNull == [t |-> "null", n |-> 0]
Num(n) == [t |-> "number", n |-> n]
NaNv == [t |-> "nan", n |-> 0]
Str(n) == [t |-> "string", n |-> n]
Text == [t |-> "text", n |-> 0]

\* v == null
LooseNull(v) == v.t \in {"undefined", "null"}

\* a ?? b
Coalesce(a, b) == IF LooseNull(a) THEN b ELSE a

\* Number(v)
ToNumber(v) ==
  CASE v.t = "undefined" -> NaN
    [] v.t = "null"      -> 0
    [] v.t = "number"    -> v.n
    [] v.t = "nan"       -> NaN
    [] v.t = "string"    -> v.n
    [] v.t = "text"      -> NaN

\* A time entry: the fields the detector reads. `id` is "" when the entry
\* has neither id nor timer_id; `task` is the id of its task.
Entry(duration, end, endTime, start, startTime, id, task) ==
  [duration |-> duration, end |-> end, end_time |-> endTime,
   start |-> start, start_time |-> startTime, id |-> id, task |-> task]

\* isActiveEntry with a numeric comparison that skips the typeof test and
\* so coerces a string duration.
IsActiveEntryCoercing(e) ==
  \/ LooseNull(e.duration)
  \/ (e.duration.t \in {"number", "string"} /\ e.duration.n < 0)
  \/ LooseNull(e.end)
  \/ LooseNull(e.end_time)

\* isActiveEntry(e)
IsActiveEntry(e) ==
  \/ LooseNull(e.duration)
  \/ (e.duration.t = "number" /\ e.duration.n < 0)
  \/ LooseNull(e.end)
  \/ LooseNull(e.end_time)

\* entryStart(e)
EntryStart(e) == ToNumber(Coalesce(Coalesce(e.start, e.start_time), Num(0)))

\* The comparator of the sort, (a, b) => entryStart(a) - entryStart(b), is
\* positive; a NaN difference counts as 0.
After(a, b) ==
  /\ EntryStart(a) # NaN
  /\ EntryStart(b) # NaN
  /\ EntryStart(a) > EntryStart(b)

\* Array.prototype.sort is stable: e goes behind every entry that does not
\* compare after it.
RECURSIVE InsertSorted(_, _)
InsertSorted(sorted, e) ==
  IF sorted = <<>> THEN <<e>>
  ELSE IF After(sorted[Len(sorted)], e)
       THEN Append(InsertSorted(SubSeq(sorted, 1, Len(sorted) - 1), e),
                   sorted[Len(sorted)])
       ELSE Append(sorted, e)

RECURSIVE SortByStart(_)
SortByStart(s) ==
  IF s = <<>> THEN <<>>
  ELSE InsertSorted(SortByStart(SubSeq(s, 1, Len(s) - 1)), s[Len(s)])

\* entries.filter(isActiveEntry)
Actives(entries) == SelectSeq(entries, IsActiveEntry)

\* entries.find(isActiveEntry), as a sequence of at most one entry.
FindActive(entries) ==
  IF Actives(entries) = <<>> THEN <<>> ELSE <<Actives(entries)[1]>>

\* The first active entry of the listing in the place of the latest.
PickActiveFirst(entries) == FindActive(entries)

\* actives.sort(...).pop() || null, as a sequence of at most one entry.
PickActive(entries) ==
  LET sorted == SortByStart(Actives(entries))
  IN  IF sorted = <<>> THEN <<>> ELSE <<sorted[Len(sorted)]>>

\* Array.isArray(cur) ? cur.find(isActiveEntry) : cur, as a sequence of at
\* most one entry; `cur` is an array of entries (arr), one entry or null.
CurEntry(cur) == IF cur.arr THEN FindActive(cur.items) ELSE cur.items

\* The start with Date.now() in the place of a missing one.
StartOrNow(active, t) ==
  IF EntryStart(active) = NaN \/ EntryStart(active) = 0 THEN t
  ELSE EntryStart(active)

\* let start = entryStart(active) || null
StartOrNull(active, t) ==
  IF EntryStart(active) = NaN \/ EntryStart(active) = 0 THEN Null
  ELSE EntryStart(active)

\* return { userId: String(userId), taskId, taskName, start }
TimerInfoOf(userId, active, t) ==
  [ActiveTimerInfo(userId, StartOrNull(active, t)) EXCEPT !.taskId = active.task]

\* What a run of the detector returns: null, or the ActiveTimerInfo built
\* from `active`, a sequence of at most one entry.
Returned(userId, active, t) ==
  IF active = <<>> THEN [kind |-> "null", info |-> <<>>]
  ELSE [kind |-> "active", info |-> <<TimerInfoOf(userId, active[1], t)>>]

\* The outcome of the probe, as the fan-out takes it.
OutcomeOf(ret) ==
  [kind  |-> ret.kind,
   start |-> IF ret.kind = "active" THEN ret.info[1].start ELSE Null]

\* The fallback taken for every member.
AsksCurrentForAnyone(active, me, userId) == active = <<>>

\* The fallback to /time_entries/current is taken.
AsksCurrent(active, me, userId) ==
  active = <<>> /\ me # NullId /\ userId = me

\* Entries whose activity fields take every combination of values.
Durations == {Undef, JNull, Num(0 - 5), Num(0), Num(3600), Str(0 - 5), NaNv}
Ends == {Undef, JNull, Num(5000)}
ActivityEntries ==
  {Entry(d, e, f, Num(1000), Undef, "x", "a") :
     d \in Durations, e \in Ends, f \in Ends}

\* Running entries whose start fields take every combination of values.
Starts == {Undef, JNull, Num(0), Num(1000), Str(2000), Text, NaNv}
StartTimes == {Undef, Num(3000), Text}
StartEntries ==
  {Entry(Undef, Undef, Undef, s, st, "x", "a") : s \in Starts, st \in StartTimes}

\* The entries of the longer listings: running ones of two tasks without
\* a start, with the start 1000 or 2000, and a finished one that started
\* later.
Finished == Entry(Num(3600), Num(5000), Num(5000), Num(3000), Undef, "x", "c")
SortEntries ==
  {Entry(Undef, Undef, Undef, s, Undef, "x", task) :
     s \in {Undef, Num(1000), Num(2000)}, task \in {"a", "b"}}
    \cup {Finished}

\* The longest listing.
MaxEntries == 3

\* The listings the upstream answers: none, one entry, or several entries
\* with comparable starts (the order a sort leaves entries in whose
\* comparator answers NaN is left to the engine).
Listings ==
  {<<>>} \cup {<<e>> : e \in ActivityEntries \cup StartEntries}
    \cup UNION {[1..n -> SortEntries] : n \in 2..MaxEntries}

\* What /time_entries/current answers: null, one entry (running with or
\* without an id, or finished), or an array.
Running(id) == Entry(Undef, Undef, Undef, Num(2000), Undef, id, "a")
Currents ==
  {[arr |-> FALSE, items |-> <<>>],
   [arr |-> FALSE, items |-> <<Running("x")>>],
   [arr |-> FALSE, items |-> <<Running("")>>],
   [arr |-> FALSE, items |-> <<Finished>>],
   [arr |-> TRUE, items |-> <<>>],
   [arr |-> TRUE, items |-> <<Finished, Running("x")>>]}

\* What /time_entries/{id} answers: no data, or the entry in full.
Details ==
  {<<>>, <<Entry(Undef, Undef, Undef, Undef, Str(1000), "x", "d")>>}

----------------------------------------------------------------------------
(* State                                                                   *)

\* No run of the detector has ended yet.
NoRun == [kind |-> "none"]

VARIABLES
  mock,        \* !TOKEN || !TEAM_ID, fixed when the process starts
  now,         \* Date.now()
  cache,       \* the snapshot served by GET /api/status
  built,       \* history: the last snapshot a refresh built completely
  myUserId,    \* MY_USER_ID
  manualCalls, \* the manual-call log
  pollDelay,   \* delay of the next scheduler timer
  booted,      \* the startup refresh is over and the server listens
  pc,          \* where each caller of refreshCache is suspended
  team,        \* members, of each refresh in flight
  nextIdx,     \* i of fetchRunningTimersForAll, of each refresh in flight
  inflight,    \* member indexes whose probe is awaited, per refresh
  results,     \* results of fetchRunningTimersForAll, per refresh
  ripe,        \* awaited probes whose latency has elapsed, per refresh
  stage,       \* awaited probes past their listing call, per refresh
  det,         \* history: the last run of fetchActiveForUser that ended
  resp         \* the last answer each client got from POST /api/refresh

vars == <<mock, now, cache, built, myUserId, manualCalls, pollDelay, booted,
          pc, team, nextIdx, inflight, results, ripe, stage, det, resp>>

locals == <<team, nextIdx, inflight, results, ripe, stage>>

NoResp == [status |-> 0, remaining |-> 0]

Init ==
  /\ mock \in BOOLEAN
  /\ now = StartNow
  /\ cache = EmptyCache
  /\ built = EmptyCache
  /\ myUserId = NullId
  /\ manualCalls = <<>>
  /\ pollDelay = POLL_INTERVAL_MS
  /\ booted = FALSE
  /\ pc = [p \in Procs |-> IF p = Sched THEN "boot" ELSE "idle"]
  /\ team = [p \in Procs |-> <<>>]
  /\ nextIdx = [p \in Procs |-> 0]
  /\ inflight = [p \in Procs |-> {}]
  /\ results = [p \in Procs |-> <<>>]
  /\ ripe = [p \in Procs |-> {}]
  /\ stage = [p \in Procs |-> <<>>]
  /\ det = NoRun
  /\ resp = [c \in Clients |-> NoResp]

\* A refresh of p is awaiting an upstream call.
InFlight(p) == pc[p] \in {"me", "team", "fan"}

\* if (!MY_USER_ID) await fetchMe(); const members = await fetchMembers():
\* the upstream call a non-mock refreshCache first awaits, given MY_USER_ID.
FirstAwait(me) == IF me \in {NullId, ""} THEN "me" ELSE "team"

\* The body of GET /api/status as the handler would build it now.
StatusBody ==
  [lastUpdated     |-> cache.lastUpdated,
   members         |-> cache.members,
   workingUserIds  |-> cache.workingUserIds,
   workingByUserId |-> cache.workingByUserId,
   manual |-> [remaining  |-> ManualRemaining(manualCalls, now),
               resetInMs  |-> ManualResetInMs(manualCalls, now),
               maxPerHour |-> MANUAL_REFRESH_MAX_PER_HOUR]]

----------------------------------------------------------------------------
(* The clock                                                               *)

Tick(d) ==
  /\ \/ d = 1 /\ (now - StartNow) % HourMs < MaxSkewMs
     \/ d = HourMs /\ now + d <= StartNow + MaxHours * HourMs + MaxSkewMs
  /\ now' = now + d
  /\ UNCHANGED <<mock, cache, built, myUserId, manualCalls, pollDelay, booted,
                 pc, locals, det, resp>>

----------------------------------------------------------------------------
(* How a caller of refreshCache continues when the refresh settles         *)

\* The code of the caller p after `await refreshCache()`, for a refresh
\* that resolved (ok) or rejected with an error carrying header hdr.
\*   startup:   await refreshCache().catch(() => {}); scheduledRefresh();
\*   scheduler: pollDelay = ...; setTimeout(scheduledRefresh, pollDelay)
\*   POST:      manualCalls.push(Date.now()); res.json(..) | res.status(500)
\* The log as the POST handler has written it when it answers.
LogAfterAnyRefresh(calls, t, ok) == PruneManualCalls(Append(calls, t), t)

\* The log when the POST handler answers a request it accepted:
\*   try { await refreshCache(); manualCalls.push(Date.now());
\*         ... manualRemaining() ... } catch (err) { res.status(500) }
LogAfter(calls, t, ok) ==
  IF ok THEN PruneManualCalls(Append(calls, t), t) ELSE calls

\* A scheduler that calls setTimeout at the end of its try block and so
\* arms no timer when the refresh failed.
SettleTimerOnSuccessOnly(p, ok, hdr) ==
  /\ team' = [team EXCEPT ![p] = <<>>]
  /\ nextIdx' = [nextIdx EXCEPT ![p] = 0]
  /\ inflight' = [inflight EXCEPT ![p] = {}]
  /\ results' = [results EXCEPT ![p] = <<>>]
  /\ ripe' = [ripe EXCEPT ![p] = {}]
  /\ stage' = [stage EXCEPT ![p] = <<>>]
  /\ IF p = Sched
     THEN /\ IF ~booted
             THEN /\ booted' = TRUE
                  /\ pollDelay' = pollDelay
                  /\ pc' = [pc EXCEPT ![p] = FirstAwait(myUserId')]
             ELSE /\ booted' = booted
                  /\ pollDelay' = IF ok THEN POLL_INTERVAL_MS
                                  ELSE Backoff(pollDelay, hdr)
                  /\ pc' = [pc EXCEPT ![p] = IF ok THEN "timer" ELSE "stopped"]
          /\ UNCHANGED <<manualCalls, resp>>
     ELSE /\ pc' = [pc EXCEPT ![p] = "idle"]
          /\ manualCalls' = LogAfter(manualCalls, now, ok)
          /\ resp' = [resp EXCEPT ![p] =
                IF ok
                THEN [status |-> 200,
                      remaining |-> ManualRemaining(Append(manualCalls, now), now)]
                ELSE [status |-> 500, remaining |-> 0]]
          /\ UNCHANGED <<booted, pollDelay>>

Settle(p, ok, hdr) ==
  /\ team' = [team EXCEPT ![p] = <<>>]
  /\ nextIdx' = [nextIdx EXCEPT ![p] = 0]
  /\ inflight' = [inflight EXCEPT ![p] = {}]
  /\ results' = [results EXCEPT ![p] = <<>>]
  /\ ripe' = [ripe EXCEPT ![p] = {}]
  /\ stage' = [stage EXCEPT ![p] = <<>>]
  /\ IF p = Sched
     THEN /\ IF ~booted
             THEN /\ booted' = TRUE
                  /\ pollDelay' = pollDelay
                  /\ pc' = [pc EXCEPT ![p] = FirstAwait(myUserId')]
             ELSE /\ booted' = booted
                  /\ pollDelay' = IF ok THEN POLL_INTERVAL_MS
                                  ELSE Backoff(pollDelay, hdr)
                  /\ pc' = [pc EXCEPT ![p] = "timer"]
          /\ UNCHANGED <<manualCalls, resp>>
     ELSE /\ pc' = [pc EXCEPT ![p] = "idle"]
          /\ manualCalls' = LogAfter(manualCalls, now, ok)
          /\ resp' = [resp EXCEPT ![p] =
                IF ok
                THEN [status |-> 200,
                      remaining |-> ManualRemaining(Append(manualCalls, now), now)]
                ELSE [status |-> 500, remaining |-> 0]]
          /\ UNCHANGED <<booted, pollDelay>>

\* The cache updated field by field, the member list not yet written.
CacheAssignFieldwise(old, new) == [new EXCEPT !.members = old.members]

\* An assignment that keeps the snapshot in place unless the new one is
\* stamped later.
CacheAssignUnlessNewer(old, new) ==
  IF old.lastUpdated >= new.lastUpdated THEN old ELSE new

\* cache = { ... }: the variable is bound to the new object in one step.
CacheAssign(old, new) == new

\* cache = { lastUpdated: Date.now(), members, workingUserIds, workingByUserId }
\* followed by the return to the caller.
Install(p, members, running) ==
  LET snap == BuildSnapshot(cache, now, members, running)
  IN  /\ cache' = CacheAssign(cache, snap)
      /\ built' = snap
      /\ UNCHANGED <<mock, now, myUserId>>
      /\ Settle(p, TRUE, NoHeader)

----------------------------------------------------------------------------
(* Startup and the scheduler                                               *)

\* await refreshCache().catch(() => {}); scheduledRefresh();
\* In mock mode neither call suspends: both refreshes and the first
\* setTimeout happen before anything else can run.
Startup ==
  /\ pc[Sched] = "boot"
  /\ IF mock
     THEN /\ cache' = MockRefresh(MockRefresh(cache, now), now)
          /\ built' = cache'
          /\ booted' = TRUE
          /\ pollDelay' = POLL_INTERVAL_MS
          /\ pc' = [pc EXCEPT ![Sched] = "timer"]
     ELSE /\ pc' = [pc EXCEPT ![Sched] = FirstAwait(myUserId)]
          /\ UNCHANGED <<cache, built, booted, pollDelay>>
  /\ UNCHANGED <<mock, now, myUserId, manualCalls, locals, det, resp>>

\* A scheduler that prunes the manual-call log when its timer fires.
TimerFirePruning ==
  /\ pc[Sched] = "timer"
  /\ manualCalls' = PruneManualCalls(manualCalls, now)
  /\ IF mock
     THEN /\ cache' = MockRefresh(cache, now)
          /\ built' = cache'
          /\ pollDelay' = POLL_INTERVAL_MS
          /\ pc' = pc
     ELSE /\ pc' = [pc EXCEPT ![Sched] = FirstAwait(myUserId)]
          /\ UNCHANGED <<cache, built, pollDelay>>
  /\ UNCHANGED <<mock, now, myUserId, booted, locals, det, resp>>

\* The timer set by setTimeout(scheduledRefresh, pollDelay) fires.
TimerFire ==
  /\ pc[Sched] = "timer"
  /\ IF mock
     THEN /\ cache' = MockRefresh(cache, now)
          /\ built' = cache'
          /\ pollDelay' = POLL_INTERVAL_MS
          /\ pc' = pc
     ELSE /\ pc' = [pc EXCEPT ![Sched] = FirstAwait(myUserId)]
          /\ UNCHANGED <<cache, built, pollDelay>>
  /\ UNCHANGED <<mock, now, myUserId, manualCalls, booted, locals, det, resp>>

----------------------------------------------------------------------------
(* HTTP handlers                                                           *)

\* app.get('/api/status'): manualRemaining() and manualResetInMs() prune
\* the log; the answer is StatusBody.
GetStatus ==
  /\ booted
  /\ manualCalls' = PruneManualCalls(manualCalls, now)
  /\ UNCHANGED <<mock, now, cache, built, myUserId, pollDelay, booted,
                 pc, locals, det, resp>>

\* app.post('/api/refresh') up to its first suspension point.
PostRefresh(c) ==
  /\ booted
  /\ pc[c] = "idle"
  /\ IF ManualRemaining(manualCalls, now) <= 0
     THEN /\ manualCalls' = PruneManualCalls(manualCalls, now)
          /\ resp' = [resp EXCEPT ![c] = [status |-> 429, remaining |-> 0]]
          /\ UNCHANGED <<cache, built, pc, locals>>
     ELSE IF mock
     THEN /\ cache' = MockRefresh(cache, now)
          /\ built' = cache'
          /\ Settle(c, TRUE, NoHeader)
     ELSE /\ manualCalls' = PruneManualCalls(manualCalls, now)
          /\ pc' = [pc EXCEPT ![c] = FirstAwait(myUserId)]
          /\ UNCHANGED <<cache, built, locals, resp>>
  /\ UNCHANGED <<mock, now, myUserId, pollDelay, booted, det>>

----------------------------------------------------------------------------
(* refreshCache, non-mock: the answers of the upstream calls               *)

\* An identity fetch whose failure rejects the refresh.
FetchMeDoneStrict(p, out) ==
  /\ pc[p] = "me"
  /\ IF out = "fail"
     THEN /\ UNCHANGED <<mock, now, cache, built, myUserId, det>>
          /\ Settle(p, FALSE, NoHeader)
     ELSE /\ myUserId' = out
          /\ pc' = [pc EXCEPT ![p] = "team"]
          /\ UNCHANGED <<mock, now, cache, built, manualCalls, pollDelay,
                         booted, locals, det, resp>>

\* The answer of GET /user: an error, or a body whose id is `out`
\* ("" when the body carries no id).
FetchMeDone(p, out) ==
  /\ pc[p] = "me"
  /\ myUserId' = IF out = "fail" THEN myUserId ELSE out
  /\ pc' = [pc EXCEPT ![p] = "team"]
  /\ UNCHANGED <<mock, now, cache, built, manualCalls, pollDelay, booted,
                 locals, det, resp>>

\* A failing refresh that resets the cache to the empty snapshot.
FetchMembersFailClearing(p, hdr) ==
  /\ pc[p] = "team"
  /\ cache' = EmptyCache
  /\ UNCHANGED <<mock, now, built, myUserId, det>>
  /\ Settle(p, FALSE, hdr)

\* A failing refresh that stamps the snapshot in place with the time of
\* the failure.
FetchMembersFailStamping(p, hdr) ==
  /\ pc[p] = "team"
  /\ cache' = [cache EXCEPT !.lastUpdated = now]
  /\ UNCHANGED <<mock, now, built, myUserId, det>>
  /\ Settle(p, FALSE, hdr)

\* GET /team/{id} fails: fetchMembers throws and refreshCache rejects.
FetchMembersFail(p, hdr) ==
  /\ pc[p] = "team"
  /\ UNCHANGED <<mock, now, cache, built, myUserId, det>>
  /\ Settle(p, FALSE, hdr)

\* Every probe issued at once, one worker per member.
FetchMembersOkAllAtOnce(p, roster) ==
  /\ pc[p] = "team"
  /\ IF roster = <<>>
     THEN Install(p, roster, <<>>)
     ELSE /\ team' = [team EXCEPT ![p] = roster]
          /\ nextIdx' = [nextIdx EXCEPT ![p] = Len(roster)]
          /\ inflight' = [inflight EXCEPT ![p] = 1..Len(roster)]
          /\ results' = [results EXCEPT ![p] = <<>>]
          /\ pc' = [pc EXCEPT ![p] = "fan"]
          /\ UNCHANGED <<mock, now, cache, built, myUserId, manualCalls,
                         pollDelay, booted, ripe, stage, resp>>
  /\ det' = det

\* One worker only: the members are probed one after the other.
FetchMembersOkOneWorker(p, roster) ==
  /\ pc[p] = "team"
  /\ IF roster = <<>>
     THEN Install(p, roster, <<>>)
     ELSE /\ team' = [team EXCEPT ![p] = roster]
          /\ nextIdx' = [nextIdx EXCEPT ![p] = 1]
          /\ inflight' = [inflight EXCEPT ![p] = {1}]
          /\ results' = [results EXCEPT ![p] = <<>>]
          /\ pc' = [pc EXCEPT ![p] = "fan"]
          /\ UNCHANGED <<mock, now, cache, built, myUserId, manualCalls,
                         pollDelay, booted, ripe, stage, resp>>
  /\ det' = det

\* GET /team/{id} answers with `roster`: fetchRunningTimersForAll starts
\* min(limit, members.length) workers, each of which issues its first probe.
FetchMembersOk(p, roster) ==
  /\ pc[p] = "team"
  /\ IF roster = <<>>
     THEN Install(p, roster, <<>>)
     ELSE /\ team' = [team EXCEPT ![p] = roster]
          /\ nextIdx' = [nextIdx EXCEPT ![p] = Min(limit, Len(roster))]
          /\ inflight' = [inflight EXCEPT ![p] = 1..Min(limit, Len(roster))]
          /\ results' = [results EXCEPT ![p] = <<>>]
          /\ pc' = [pc EXCEPT ![p] = "fan"]
          /\ UNCHANGED <<mock, now, cache, built, myUserId, manualCalls,
                         pollDelay, booted, ripe, stage, resp>>
  /\ det' = det

\* A worker whose probe throws loses what the batch has collected.
CollectOrLose(list, userId, out) ==
  IF out.kind = "active" THEN Append(list, ActiveTimerInfo(userId, out.start))
  ELSE IF out.kind = "throw" THEN <<>>
  ELSE list

\* try { const active = await fetchActiveForUser(userId);
\*       if (active) results.push(active); } catch (err) { console.error(..) }
Collect(list, userId, out) ==
  IF out.kind = "active" THEN Append(list, ActiveTimerInfo(userId, out.start))
  ELSE list

\* Without k, whose probe has ended.
Drop(f, k) == [i \in DOMAIN f \ {k} |-> f[i]]

\* The probe of member k ends with `out`, its run being `run`; its worker
\* takes the next member, or ends; when the last worker ends the refresh
\* merges, installs the snapshot and returns.
ProbeReturns(p, k, out, run) ==
  /\ pc[p] = "fan"
  /\ k \in inflight[p]
  /\ det' = run
  /\ LET res == Collect(results[p], team[p][k], out)
     IN  IF nextIdx[p] < Len(team[p])
         THEN /\ nextIdx' = [nextIdx EXCEPT ![p] = @ + 1]
              /\ inflight' = [inflight EXCEPT ![p] = (@ \ {k}) \cup {nextIdx[p] + 1}]
              /\ results' = [results EXCEPT ![p] = res]
              /\ ripe' = [ripe EXCEPT ![p] = @ \ {k}]
              /\ stage' = [stage EXCEPT ![p] = Drop(@, k)]
              /\ UNCHANGED <<mock, now, cache, built, myUserId, manualCalls,
                             pollDelay, booted, pc, team, resp>>
         ELSE IF inflight[p] # {k}
         THEN /\ inflight' = [inflight EXCEPT ![p] = @ \ {k}]
              /\ results' = [results EXCEPT ![p] = res]
              /\ ripe' = [ripe EXCEPT ![p] = @ \ {k}]
              /\ stage' = [stage EXCEPT ![p] = Drop(@, k)]
              /\ UNCHANGED <<mock, now, cache, built, myUserId, manualCalls,
                             pollDelay, booted, pc, team, nextIdx, resp>>
         ELSE Install(p, team[p], res)

\* The probe of member k settles with `out`, whatever the upstream calls
\* of the detector were.
ProbeDone(p, k, out) == ProbeReturns(p, k, out, det)

----------------------------------------------------------------------------
(* The detector, call by call                                              *)

\* The record of a run of fetchActiveForUser(userId): the value MY_USER_ID
\* had when the run looked at it, the listing, whether /current was
\* requested and whether that request failed, and what the run returned.
Run(userId, me, listing, called, failed, ret) ==
  [kind |-> "run", userId |-> userId, me |-> me, listing |-> listing,
   called |-> called, failed |-> failed, ret |-> ret]

\* The run of member k of refresh p ends, returning `ret`.
Return(p, k, listing, called, failed, ret) ==
  ProbeReturns(p, k, OutcomeOf(ret),
               Run(team[p][k], myUserId, listing, called, failed, ret))

\* The run of member k moves on to its next upstream call.
Await(p, k, s) ==
  /\ stage' = [stage EXCEPT ![p] = Put(@, k, s)]
  /\ UNCHANGED <<mock, now, cache, built, myUserId, manualCalls, pollDelay,
                 booted, pc, team, nextIdx, inflight, results, ripe, det, resp>>

\* The listing call of member k answers with `listing`: the run returns
\* the latest active entry, or asks /time_entries/current, or returns null.
ListDone(p, k, listing) ==
  /\ pc[p] = "fan"
  /\ k \in inflight[p]
  /\ k \notin DOMAIN stage[p]
  /\ LET active == PickActive(listing)
     IN  IF AsksCurrent(active, myUserId, team[p][k])
         THEN Await(p, k, [at |-> "current", listing |-> listing, cur |-> <<>>])
         ELSE Return(p, k, listing, FALSE, FALSE,
                     Returned(team[p][k], active, now))

\* The listing call of member k fails: the run throws.
ListFail(p, k) ==
  /\ pc[p] = "fan"
  /\ k \in inflight[p]
  /\ k \notin DOMAIN stage[p]
  /\ ProbeReturns(p, k, [kind |-> "throw", start |-> Null],
                  [kind |-> "threw", userId |-> team[p][k]])

\* /time_entries/current answers with `cur`: an active entry with an id has
\* its details fetched, one without is returned as it is (fetchEntryDetails
\* answers null without a call), and otherwise the run returns null.
CurrentDone(p, k, cur) ==
  /\ pc[p] = "fan"
  /\ k \in DOMAIN stage[p]
  /\ stage[p][k].at = "current"
  /\ LET curEntry == CurEntry(cur)
         listing  == stage[p][k].listing
     IN  IF curEntry # <<>> /\ IsActiveEntry(curEntry[1])
         THEN IF curEntry[1].id # ""
              THEN Await(p, k, [at |-> "details", listing |-> listing,
                                cur |-> curEntry])
              ELSE Return(p, k, listing, TRUE, FALSE,
                          Returned(team[p][k], curEntry, now))
         ELSE Return(p, k, listing, TRUE, FALSE,
                     Returned(team[p][k], <<>>, now))

\* /time_entries/current fails: the error is caught and the run returns
\* null.
CurrentFail(p, k) ==
  /\ pc[p] = "fan"
  /\ k \in DOMAIN stage[p]
  /\ stage[p][k].at = "current"
  /\ Return(p, k, stage[p][k].listing, TRUE, TRUE,
            Returned(team[p][k], <<>>, now))

\* fetchEntryDetails answers with `detail`, which is empty when the call
\* failed or held no data: active = detailed || curEntry.
DetailsDone(p, k, detail) ==
  /\ pc[p] = "fan"
  /\ k \in DOMAIN stage[p]
  /\ stage[p][k].at = "details"
  /\ Return(p, k, stage[p][k].listing, TRUE, FALSE,
            Returned(team[p][k],
                     IF detail # <<>> THEN detail ELSE stage[p][k].cur, now))

----------------------------------------------------------------------------
(* Specification                                                           *)

\* The answers of GET /user: an error, a body without an id, the id of a
\* team member.
MeOutcomes == {"fail", "", "1"}

\* The steps of the server, the clock apart, when the clients in C post
\* refreshes and the upstream answers /user with one of MeOut, /team with an
\* error carrying one of the headers Hdrs (to the callers in F) or with one
\* of the rosters Rs, and a probe with one of Outs.
Steps(C, F, MeOut, Hdrs, Rs, Outs) ==
  \/ Startup
  \/ TimerFire
  \/ GetStatus
  \/ \E c \in C : PostRefresh(c)
  \/ \E p \in {Sched} \cup C, out \in MeOut : FetchMeDone(p, out)
  \/ \E p \in F, hdr \in Hdrs : FetchMembersFail(p, hdr)
  \/ \E p \in {Sched} \cup C, roster \in Rs : FetchMembersOk(p, roster)
  \/ \E p \in {Sched} \cup C, k \in 1..Cardinality(UserIds), out \in Outs :
        ProbeDone(p, k, out)

\* Snapshot construction: the scheduler and one client refresh, one after
\* the other and overlapping, against a team that changes between the
\* rosters below and probes with every outcome; a failing /team carries
\* retry-after: 300. The clock stands still.
SpecRosters == {<<>>, <<"1">>, <<"1", "2">>}

Next == Steps({1}, {Sched, 1}, {"fail", "1"}, {300}, SpecRosters, ProbeOutcomes)

Spec == Init /\ [][Next]_vars

\* The limiter: every client posts refreshes while the clock advances,
\* against an upstream whose team has the one member "1", always idle, and
\* whose /team call fails, with retry-after: 300, for the clients only.
NextQuota ==
  \/ \E d \in {1, HourMs} : Tick(d)
  \/ Steps(Clients, Clients, {"1"}, {300}, {<<"1">>},
           {[kind |-> "null", start |-> Null]})

SpecQuota == Init /\ [][NextQuota]_vars

\* The scenario of MANUAL_REFRESH_MAX_PER_HOUR + 1 requests issued one
\* after another: client c posts once, after the requests of the clients
\* before it have been answered.
SerialPost(c) ==
  /\ \A d \in 1..(c - 1) : resp[d].status # 0 /\ pc[d] = "idle"
  /\ resp[c].status = 0
  /\ PostRefresh(c)

\* The limiter under requests that never overlap: the clients post in
\* turn, one request each, while the clock advances and the scheduler
\* polls; the upstream is that of SpecQuota.
NextSerial ==
  \/ \E d \in {1, HourMs} : Tick(d)
  \/ Startup
  \/ TimerFire
  \/ GetStatus
  \/ \E c \in Clients : SerialPost(c)
  \/ \E p \in Procs : FetchMeDone(p, "1")
  \/ \E c \in Clients : FetchMembersFail(c, 300)
  \/ \E p \in Procs : FetchMembersOk(p, <<"1">>)
  \/ \E p \in Procs : ProbeDone(p, 1, [kind |-> "null", start |-> Null])

SpecSerial == Init /\ [][NextSerial]_vars

\* The scheduler and its backoff: the scheduler and one client refresh
\* against an upstream whose /team call fails without a retry-after header
\* or with one of 45 s and 300 s; the team has the one member "1", always
\* idle. The clock advances.
NextSched ==
  \/ \E d \in {1, HourMs} : Tick(d)
  \/ Steps({1}, {Sched, 1}, {"1"}, RetryAfterSecs, {<<"1">>},
           {[kind |-> "null", start |-> Null]})

SpecSched == Init /\ [][NextSched]_vars

\* The outcomes of the upstream calls of one detector call.
ListOutcomes == {"throw", "active", "none"}
CurrentOutcomes == {"throw", "active", "none"}
DetailOutcomes == {"data", "null"}

\* The outcomes of a probe that the detector produces from them, an
\* ActiveTimerInfo carrying the start 1000.
DetectorOutcomes ==
  {[kind  |-> DetectorResult(l, m, c, d).kind,
    start |-> IF DetectorResult(l, m, c, d).kind = "active" THEN 1000 ELSE Null] :
     l \in ListOutcomes, m \in BOOLEAN, c \in CurrentOutcomes,
     d \in DetailOutcomes}

\* Failures: the scheduler and one client refresh against an upstream
\* whose /user call fails or answers, whose /team call fails with
\* retry-after: 300 or answers with a team of two, and whose listing,
\* /current and entry-detail calls fail or answer. The clock stands still.
NextFail ==
  Steps({1}, {Sched, 1}, {"fail", "1"}, {300}, {<<"1", "2">>},
        DetectorOutcomes)

SpecFail == Init /\ [][NextFail]_vars

\* A team of n members, with the ids "1" .. "n".
FanTeam(n) == [i \in 1..n |-> ToString(i)]

\* The outcomes of a probe in the fan-out specifications.
FanOutcomes ==
  {[kind |-> "null", start |-> Null], [kind |-> "throw", start |-> Null],
   [kind |-> "active", start |-> 1000]}

\* GET /team/{id} of the startup refresh answers with a team of n members.
BootTeam(n) == ~booted /\ FetchMembersOk(Sched, FanTeam(n))

\* GET /team/{id} of a scheduled refresh fails with retry-after: 300.
TeamDown == booted /\ FetchMembersFail(Sched, 300)

\* The fan-out under every completion order: the startup refresh fetches
\* a team of 0 .. MaxMembers members and probes them, each probe ending
\* idle, with an error or active, in any order; the /team calls of the
\* scheduled refreshes that follow fail with retry-after: 300.
NextFan ==
  \/ Startup
  \/ TimerFire
  \/ GetStatus
  \/ FetchMeDone(Sched, "1")
  \/ \E n \in 0..MaxMembers : BootTeam(n)
  \/ TeamDown
  \/ \E k \in 1..MaxMembers, out \in FanOutcomes : ProbeDone(Sched, k, out)

SpecFan == Init /\ [][NextFan]_vars

\* The latency of the detector calls elapses: the probes awaited now, all
\* issued at this instant, become ripe Latency ms later. Answers that
\* have arrived are handled before time goes on.
Elapse ==
  /\ \E p \in Procs : pc[p] = "fan"
  /\ \A p \in Procs : ripe[p] = {}
  /\ now' = now + Latency
  /\ ripe' = inflight
  /\ UNCHANGED <<mock, cache, built, myUserId, manualCalls, pollDelay, booted,
                 pc, team, nextIdx, inflight, results, stage, det, resp>>

\* The probe of member k settles when its latency has elapsed.
RipeProbeDone(p, k, out) ==
  /\ k \in ripe[p]
  /\ ProbeDone(p, k, out)

\* The fan-out under a uniform latency: as NextFan, for teams of up to
\* MaxLatencyMembers members whose probes end idle or with an error, each
\* Latency ms after it was issued; every other step takes no time.
NextLatency ==
  \/ Startup
  \/ TimerFire
  \/ GetStatus
  \/ FetchMeDone(Sched, "1")
  \/ \E n \in 0..MaxLatencyMembers : BootTeam(n)
  \/ TeamDown
  \/ \E k \in 1..MaxLatencyMembers, kind \in {"null", "throw"} :
        RipeProbeDone(Sched, k, [kind |-> kind, start |-> Null])
  \/ Elapse

SpecLatency == Init /\ [][NextLatency]_vars

\* GET /team/{id} of the startup refresh answers with `roster`.
BootRoster(roster) == ~booted /\ FetchMembersOk(Sched, roster)

\* The detector: the startup refresh against an upstream whose /user call
\* fails or answers "1", whose team is the member "1" or the member "2",
\* and whose listing, /current and entry-detail calls fail or answer with
\* every value above; the /team calls of the scheduled refreshes that
\* follow fail with retry-after: 300. The clock stands still.
DetectorRosters == {<<"1">>, <<"2">>}

NextDetector ==
  \/ Startup
  \/ TimerFire
  \/ \E out \in {"fail", "1"} : FetchMeDone(Sched, out)
  \/ \E roster \in DetectorRosters : BootRoster(roster)
  \/ TeamDown
  \/ \E listing \in Listings : ListDone(Sched, 1, listing)
  \/ ListFail(Sched, 1)
  \/ \E cur \in Currents : CurrentDone(Sched, 1, cur)
  \/ CurrentFail(Sched, 1)
  \/ \E detail \in Details : DetailsDone(Sched, 1, detail)

SpecDetector == Init /\ [][NextDetector]_vars

\* The outcomes of a probe of overlapping refreshes.
OverlapOutcomes ==
  {[kind |-> "null", start |-> Null], [kind |-> "active", start |-> 1000]}

\* Overlap: the scheduler and one client refresh, one after the other and
\* overlapping, against an upstream whose team changes between the rosters
\* of Spec and whose calls all succeed. The clock stands still.
NextOverlap ==
  \/ Startup
  \/ TimerFire
  \/ PostRefresh(1)
  \/ \E p \in {Sched, 1} : FetchMeDone(p, "1")
  \/ \E p \in {Sched, 1}, roster \in SpecRosters : FetchMembersOk(p, roster)
  \/ \E p \in {Sched, 1}, k \in 1..Cardinality(UserIds),
        out \in OverlapOutcomes : ProbeDone(p, k, out)

SpecOverlap == Init /\ [][NextOverlap]_vars

\* The retry-after headers a failure may carry: none (or one that holds no
\* number), a negative number, zero, and from one second to one hour.
AnyRetryAfterSecs == RetryAfterSecs \cup {0 - 5, 0, 1, 3600}

\* The delay: scheduled refreshes that succeed, or fail with any of these
\* headers, and one client refreshing meanwhile, against an upstream whose
\* team has the one member "1", always idle. The clock stands still.
NextDelay ==
  Steps({1}, {Sched, 1}, {"1"}, AnyRetryAfterSecs, {<<"1">>},
        {[kind |-> "null", start |-> Null]})

SpecDelay == Init /\ [][NextDelay]_vars

\* Client c posts its one request.
FirstPost(c) == resp[c].status = 0 /\ PostRefresh(c)

\* Time passes, by a millisecond on the hour or by an hour, until the last
\* entry of the log is more than an hour old.
Pass(d) ==
  /\ manualCalls # <<>>
  /\ now <= manualCalls[Len(manualCalls)] + HourMs
  /\ \/ d = 1 /\ (now - StartNow) % HourMs < MaxSkewMs
     \/ d = HourMs
  /\ now' = now + d
  /\ UNCHANGED <<mock, cache, built, myUserId, manualCalls, pollDelay, booted,
                 pc, locals, det, resp>>

\* Recovery of the quota: every client posts one request, at any time and
\* overlapping, against an upstream whose team has the one member "1",
\* always idle, and whose /team call fails for the clients or answers;
\* the scheduler keeps polling, and the clock does not stop while the log
\* holds an entry of the last hour.
NextRecover ==
  \/ \E d \in {1, HourMs} : Pass(d)
  \/ Startup
  \/ TimerFire
  \/ GetStatus
  \/ \E c \in Clients : FirstPost(c)
  \/ \E p \in Procs : FetchMeDone(p, "1")
  \/ \E c \in Clients : FetchMembersFail(c, 300)
  \/ \E p \in Procs : FetchMembersOk(p, <<"1">>)
  \/ \E p \in Procs : ProbeDone(p, 1, [kind |-> "null", start |-> Null])

SpecRecover ==
  Init /\ [][NextRecover]_vars /\ WF_vars(\E d \in {1, HourMs} : Pass(d))

----------------------------------------------------------------------------
(* Steps the claims speak about                                            *)


\* The probe of member k is the last one p's fan-out waits for: when it
\* settles with `out`, refreshCache merges and installs.
LastProbe(p, k, out) ==
  /\ pc[p] = "fan"
  /\ inflight[p] = {k}
  /\ nextIdx[p] >= Len(team[p])
  /\ ProbeDone(p, k, out)

\* The list fetchRunningTimersForAll returns in that step.
RunningWith(p, k, out) ==
  IF out.kind = "active"
  THEN Append(results[p], ActiveTimerInfo(team[p][k], out.start))
  ELSE results[p]

\* A step in which refreshCache of p returns normally.
RefreshSucceeds(p) ==
  IF mock
  THEN \/ p = Sched /\ (Startup \/ TimerFire)
       \/ p \in Clients /\ PostRefresh(p) /\ resp'[p].status = 200
  ELSE \/ pc[p] = "fan" /\ pc'[p] # "fan"
       \/ pc[p] = "team" /\ FetchMembersOk(p, <<>>)

\* A step in which refreshCache of p rejects.
RefreshFails(p) ==
  /\ pc[p] = "team"
  /\ \E hdr \in RetryAfterSecs : FetchMembersFail(p, hdr)

----------------------------------------------------------------------------
(* C1 .. C6: the snapshot                                                  *)

\* The snapshot installed in this step reports for U the start the replaced
\* snapshot held, if the probed start s is falsy and the held one truthy.
Carried(U, s) ==
  (/\ ~Truthy(s)
   /\ U \in DOMAIN cache.workingByUserId
   /\ Truthy(cache.workingByUserId[U].start))
  => /\ U \in DOMAIN cache'.workingByUserId
     /\ cache'.workingByUserId[U].start = cache.workingByUserId[U].start

\* The snapshot installed in this step reports for U the probed start s, if
\* s is truthy.
Fresh(U, s) ==
  Truthy(s)
  => /\ U \in DOMAIN cache'.workingByUserId
     /\ cache'.workingByUserId[U].start = s

\* C1: start preservation. Whenever a non-mock refresh merges a result for
\* member U whose start is falsy while the snapshot in place holds a truthy
\* start T for U, the snapshot it installs reports start T for U. The
\* results merged are those collected before the last probe settles and
\* the result of that probe.
C1_StartPreserved ==
  [][\A p \in Procs :
       (pc[p] = "fan" /\ pc'[p] # "fan") =>
         /\ \A i \in DOMAIN results[p] :
              Carried(results[p][i].userId, results[p][i].start)
         /\ \A k \in inflight[p], out \in ProbeOutcomes :
              (out.kind = "active" /\ ~Truthy(out.start) /\ LastProbe(p, k, out))
              => Carried(team[p][k], out.start)]_vars

\* A refresh is about to merge a start-less result for "1" over a cached
\* start 1000, and the snapshot it installs keeps 1000.
C1_Witness ==
  /\ "1" \in DOMAIN cache.workingByUserId
  /\ cache.workingByUserId["1"].start = 1000
  /\ ENABLED (\E p \in Procs, k \in 1..Cardinality(UserIds) :
                /\ LastProbe(p, k, [kind |-> "active", start |-> Null])
                /\ team[p][k] = "1"
                /\ cache'.workingByUserId["1"].start = 1000)

\* C2: the keys of workingByUserId are exactly workingUserIds, so a member
\* without a probe result has no entry in the map of the new snapshot.
C2_KeysAreWorkingIds ==
  DOMAIN cache.workingByUserId = cache.workingUserIds

\* C3: every id in workingUserIds is the id of a member of the same
\* snapshot.
C3_WorkingAreMembers ==
  cache.workingUserIds \subseteq Range(cache.members)

\* A snapshot with a working member, installed after the team lost a
\* member who worked in an earlier snapshot.
C3_Witness ==
  /\ cache.members = <<"1">>
  /\ cache.workingUserIds = {"1"}
  /\ "2" \in DOMAIN cache.workingByUserId

\* C4: a truthy start of a probe result overrides the cached start.
\* Whenever a refresh merges a result for member U whose start S is truthy,
\* the snapshot it installs reports start S for U.
C4_FreshStartWins ==
  [][\A p \in Procs :
       (pc[p] = "fan" /\ pc'[p] # "fan") =>
         /\ \A i \in DOMAIN results[p] :
              Fresh(results[p][i].userId, results[p][i].start)
         /\ \A k \in inflight[p], out \in ProbeOutcomes :
              (out.kind = "active" /\ Truthy(out.start) /\ LastProbe(p, k, out))
              => Fresh(team[p][k], out.start)]_vars

\* A refresh is about to merge start 2000 for "1" over a cached start 1000,
\* and the snapshot it installs reports 2000.
C4_Witness ==
  /\ "1" \in DOMAIN cache.workingByUserId
  /\ cache.workingByUserId["1"].start = 1000
  /\ ENABLED (\E p \in Procs, k \in 1..Cardinality(UserIds) :
                /\ LastProbe(p, k, [kind |-> "active", start |-> 2000])
                /\ team[p][k] = "1"
                /\ cache'.workingByUserId["1"].start = 2000)

\* C5: a refresh that fails leaves the snapshot as it was. The step in
\* which refreshCache rejects does not change the cache, and the cache
\* changes in no step but one in which a refresh returns normally: a
\* refresh writes nothing before it has succeeded.
C5_FailureKeepsSnapshot ==
  [][/\ \A p \in Procs : RefreshFails(p) => cache' = cache
     /\ cache' # cache => \E p \in Procs : RefreshSucceeds(p)]_vars

\* Both the scheduler and a client have seen a refresh fail while a
\* snapshot with a working member is served.
C5_Witness ==
  /\ cache.workingUserIds # {}
  /\ resp[1].status = 500
  /\ pc[Sched] = "timer"
  /\ pollDelay # POLL_INTERVAL_MS

\* C6: whenever GET /api/status can be served, the four snapshot fields of
\* its body are those of the last snapshot a refresh built completely (the
\* empty one before the first).
C6_StatusIsOneSnapshot ==
  /\ StatusBody.lastUpdated = built.lastUpdated
  /\ StatusBody.members = built.members
  /\ StatusBody.workingUserIds = built.workingUserIds
  /\ StatusBody.workingByUserId = built.workingByUserId

\* The server listens and serves a snapshot with a working member while a
\* refresh has collected part of its probe results.
C6_Witness ==
  /\ booted
  /\ cache.workingUserIds # {}
  /\ \E p \in Procs : pc[p] = "fan" /\ results[p] # <<>> /\ inflight[p] # {}

----------------------------------------------------------------------------
(* C7 .. C10: the manual-refresh limiter                                   *)

\* Manual refreshes run in the hour that ends now: those still awaiting
\* upstream calls and those logged in the last hour.
ManualRunsInWindow ==
  Cardinality({c \in Clients : InFlight(c)})
    + Cardinality({i \in DOMAIN manualCalls : manualCalls[i] > now - HourMs})

\* C7: at most MANUAL_REFRESH_MAX_PER_HOUR manual refreshes are executed in
\* any rolling 60-minute window.
C7_AtMostKPerHour ==
  ManualRunsInWindow <= MANUAL_REFRESH_MAX_PER_HOUR

\* C8: after pruning, manualRemaining() plus the number of timestamps in
\* the log equals MANUAL_REFRESH_MAX_PER_HOUR.
C8_RemainingPlusLogged ==
  ManualRemaining(manualCalls, now) + Len(PruneManualCalls(manualCalls, now))
    = MANUAL_REFRESH_MAX_PER_HOUR

\* C9: manualResetInMs() returns 0 if and only if the pruned log is empty.
C9_ResetZeroIffEmpty ==
  (ManualResetInMs(manualCalls, now) = 0)
    <=> (PruneManualCalls(manualCalls, now) = <<>>)

\* C10: a POST /api/refresh that finds the quota used up (the pruned log
\* holds MANUAL_REFRESH_MAX_PER_HOUR entries or more) answers 429 with
\* remaining 0, starts no refresh (no caller moves, no upstream call is
\* awaited anew), leaves the snapshot alone and adds nothing to the log.
C10_RejectedDoesNothing ==
  [][\A c \in Clients :
       (/\ pc[c] = "idle"
        /\ Len(PruneManualCalls(manualCalls, now)) >= MANUAL_REFRESH_MAX_PER_HOUR
        /\ PostRefresh(c))
       => /\ resp'[c] = [status |-> 429, remaining |-> 0]
          /\ cache' = cache
          /\ pc' = pc
          /\ UNCHANGED locals
          /\ Len(manualCalls') <= Len(manualCalls)
          /\ Range(manualCalls') \subseteq Range(manualCalls)]_vars

\* A client has been answered 429 while another refresh is in flight.
C10_Witness ==
  \E c \in Clients :
    /\ resp[c].status = 429
    /\ \E p \in Procs : InFlight(p)

----------------------------------------------------------------------------
(* C11 .. C12: the manual-call log                                         *)

\* C11: of MANUAL_REFRESH_MAX_PER_HOUR + 1 POST /api/refresh requests
\* issued one after another within one hour, the first finding the log
\* empty, the last is answered 429 with remaining 0. The clients post in
\* turn from the start, so the last request is that of client NumClients.
C11_LastOfKPlusOneRejected ==
  (resp[NumClients].status # 0 /\ now < StartNow + HourMs)
  => resp[NumClients] = [status |-> 429, remaining |-> 0]

\* A step in which the request of client c is answered with status s: the
\* handler returns at once (429, or a mock refresh), or the refresh it
\* awaited settles.
Answered(c, s) ==
  /\ pc'[c] = "idle"
  /\ resp'[c].status = s
  /\ \/ InFlight(c)
     \/ pc[c] = "idle" /\ PostRefresh(c)

\* C12: a request answered ok:true adds the one timestamp `now` to the
\* (pruned) log; a request answered 429 or 500 adds none; and a timestamp
\* enters the log only in the step in which a manual refresh has finished
\* (its snapshot is installed) and is answered ok:true.
C12_LogGrowsOnSuccessOnly ==
  [][LET old == PruneManualCalls(manualCalls, now)
     IN  /\ \A c \in Clients :
              /\ Answered(c, 200) => manualCalls' = Append(old, now)
              /\ (Answered(c, 429) \/ Answered(c, 500))
                 => manualCalls' \in {manualCalls, old}
         /\ manualCalls' \notin {manualCalls, old}
            => \E c \in Clients : /\ Answered(c, 200)
                                  /\ cache' = built'
                                  /\ cache'.lastUpdated = now]_vars

\* The three answers have been given while the log holds a timestamp.
C12_Witness ==
  /\ manualCalls # <<>>
  /\ \E c, d, e \in Clients : /\ resp[c].status = 200
                              /\ resp[d].status = 429
                              /\ resp[e].status = 500

----------------------------------------------------------------------------
(* C13 .. C14: the backoff of the scheduler                                *)

\* A step in which a scheduled refresh (not the one at startup) rejects
\* with an error whose retry-after header is hdr.
SchedFails(hdr) ==
  /\ booted
  /\ pc[Sched] = "team"
  /\ FetchMembersFail(Sched, hdr)

\* A step in which a scheduled refresh returns normally.
SchedSucceeds ==
  /\ booted
  /\ pc[Sched] \in {"timer", "team", "fan"}
  /\ RefreshSucceeds(Sched)

\* pollDelay after n consecutive failures without a retry-after header,
\* counted from pollDelay = POLL_INTERVAL_MS.
DelayAfter(n) == Min(POLL_INTERVAL_MS * 2 ^ n, MaxPollDelayMs)

\* C13: starting from pollDelay = POLL_INTERVAL_MS, after N consecutive
\* failed scheduled refreshes without a retry-after header pollDelay is
\* min(base * 2^N, 300000), and after the next successful scheduled
\* refresh it is the base again. Stated step by step: pollDelay starts at
\* DelayAfter(0); a failure without header at DelayAfter(N) leads to
\* DelayAfter(N + 1); a success leads to the base.
C13_DoublingBackoff ==
  [][/\ ~booted => pollDelay = DelayAfter(0)
     /\ \A n \in 0..MaxFails :
          (pollDelay = DelayAfter(n) /\ SchedFails(NoHeader))
          => pollDelay' = DelayAfter(n + 1)
     /\ SchedSucceeds => pollDelay' = POLL_INTERVAL_MS]_vars

\* After three failures without header the scheduler awaits /team with
\* pollDelay 240000; a fourth failure caps the delay at five minutes.
C13_Witness ==
  /\ pollDelay = DelayAfter(3)
  /\ pollDelay < MaxPollDelayMs
  /\ ENABLED (SchedFails(NoHeader) /\ pollDelay' = MaxPollDelayMs)

\* C14: after a failed scheduled refresh the new pollDelay is
\* max(retryAfterMs, 2 * pollDelay) clamped to [base, 300000], where
\* retryAfterMs is the header in seconds times 1000, or 0 without header.
C14_MaxOfHeaderAndDouble ==
  [][\A hdr \in RetryAfterSecs :
       SchedFails(hdr)
       => LET retryAfterMs == IF hdr = NoHeader THEN 0 ELSE hdr * 1000
          IN  pollDelay' = Min(Max(Max(retryAfterMs, 2 * pollDelay),
                                   POLL_INTERVAL_MS),
                               MaxPollDelayMs)]_vars

----------------------------------------------------------------------------
(* C15: mock mode                                                          *)

\* C15: without token or team id, whenever GET /api/status can be served
\* (after any scheduled and manual refreshes) its body holds exactly the
\* mock members "1", "2", "3", workingUserIds = ["2"] and taskId
\* "TASK-123" for "2"; no caller awaits an upstream call, and no refresh
\* has failed: no request was answered 500 and the scheduler never backed
\* off.
C15_MockSnapshot ==
  (mock /\ booted) =>
    /\ StatusBody.members = <<"1", "2", "3">>
    /\ StatusBody.workingUserIds = {"2"}
    /\ DOMAIN StatusBody.workingByUserId = {"2"}
    /\ StatusBody.workingByUserId["2"].taskId = "TASK-123"
    /\ \A p \in Procs : ~InFlight(p) /\ inflight[p] = {}
    /\ myUserId = NullId
    /\ \A c \in Clients : resp[c].status # 500
    /\ pollDelay = POLL_INTERVAL_MS

\* Mock mode, an hour after the start: the snapshot was refreshed after
\* the clock advanced, one request was answered ok and one 429.
C15_Witness ==
  /\ mock
  /\ booted
  /\ cache.lastUpdated > StartNow
  /\ \E c, d \in Clients : resp[c].status = 200 /\ resp[d].status = 429

----------------------------------------------------------------------------
(* C16 .. C18: the fan-out                                                 *)

\* The ids of the results in a list.
IdsOf(list) == {list[i].userId : i \in DOMAIN list}

\* C16: fetchRunningTimersForAll probes each member exactly once,
\* completes without throwing, and returns exactly the results of the
\* probes that ended active. Step by step: the fan-out starts with probes
\* of the first members and an empty list; a probe is only ever issued for
\* the next member not probed before; a probe that ends active adds its
\* result to the list, and one that ends idle or throws leaves the list as
\* it is; the fan-out ends when every member was probed and the last probe
\* has settled, and then the refresh installs a snapshot with the team and
\* the collected ids and returns normally.
C16_FanOutCollectsAll ==
  [][\A p \in Procs :
       /\ (pc[p] = "team" /\ pc'[p] = "fan")
          => /\ inflight'[p] = 1..nextIdx'[p]
             /\ results'[p] = <<>>
       /\ pc[p] = "fan"
          => /\ inflight[p] \subseteq 1..nextIdx[p]
             /\ nextIdx[p] <= Len(team[p])
             /\ pc'[p] = "fan"
                => /\ team'[p] = team[p]
                   /\ inflight'[p] \ inflight[p] = (nextIdx[p] + 1)..nextIdx'[p]
             /\ pc'[p] # "fan"
                => /\ nextIdx[p] = Len(team[p])
                   /\ Cardinality(inflight[p]) = 1
                   /\ cache'.members = team[p]
                   /\ cache'.lastUpdated = now
                   /\ p = Sched => pollDelay' \in {pollDelay, POLL_INTERVAL_MS}
                   /\ p # Sched => resp'[p].status = 200
             /\ \A k \in inflight[p] \ (IF pc'[p] = "fan" THEN inflight'[p] ELSE {}),
                  out \in ProbeOutcomes :
                  ProbeDone(p, k, out)
                  => LET all == IF out.kind = "active"
                                THEN Append(results[p],
                                            ActiveTimerInfo(team[p][k], out.start))
                                ELSE results[p]
                     IN  IF pc'[p] = "fan"
                         THEN results'[p] = all
                         ELSE cache'.workingUserIds = IdsOf(all)]_vars

\* All members but one have ended active; the probe of the last throws,
\* and the snapshot installed reports the others as working.
C16_Witness ==
  /\ pc[Sched] = "fan"
  /\ Len(team[Sched]) = MaxMembers
  /\ Len(results[Sched]) = MaxMembers - 1
  /\ ENABLED (\E k \in 1..MaxMembers :
                /\ LastProbe(Sched, k, [kind |-> "throw", start |-> Null])
                /\ Cardinality(cache'.workingUserIds) = MaxMembers - 1)

\* C17: during a fan-out at most 5 detector calls are in flight, and at
\* most as many as the team has members.
C17_AtMostLimitInFlight ==
  \A p \in Procs :
    Cardinality(inflight[p]) <= Min(limit, Len(team[p]))

\* Five probes are in flight after the first ones have settled, in a team
\* of more than five members.
C17_Witness ==
  /\ pc[Sched] = "fan"
  /\ Len(team[Sched]) > limit
  /\ nextIdx[Sched] > limit
  /\ Cardinality(inflight[Sched]) = limit
  /\ 1 \in inflight[Sched]

\* ceil(n / d)
CeilDiv(n, d) == (n + d - 1) \div d

\* C18: with a uniform probe latency a fan-out over N members is over
\* ceil(N / 5) * Latency after it started (the fan-out of the startup
\* refresh starts at StartNow); a worker starts its next probe in the step
\* in which its previous one has settled, and while unprobed members
\* remain, five probes are in flight.
C18_FanOutTakesCeilRounds ==
  [][\A p \in Procs :
       pc[p] = "fan"
       => /\ nextIdx[p] < Len(team[p])
             => /\ Cardinality(inflight[p]) = limit
                /\ inflight'[p] # inflight[p]
                   => /\ Cardinality(inflight'[p]) = limit
                      /\ nextIdx'[p] = nextIdx[p] + 1
                      /\ now' = now
          /\ pc'[p] # "fan"
             => now' = StartNow + CeilDiv(Len(team[p]), limit) * Latency]_vars

\* The fan-out over the largest team is over after ceil(N / 5) latencies,
\* fewer than N.
C18_Witness ==
  /\ Len(cache.members) = MaxLatencyMembers
  /\ cache.lastUpdated = StartNow + CeilDiv(MaxLatencyMembers, limit) * Latency
  /\ CeilDiv(MaxLatencyMembers, limit) < MaxLatencyMembers

----------------------------------------------------------------------------
(* C19 .. C20: what a refresh touches, and when it fails                   *)

\* A step of the POST handler for client c: the request arrives, or an
\* upstream call its refresh awaits settles.
ManualStep(c) ==
  \/ pc[c] = "idle" /\ PostRefresh(c)
  \/ InFlight(c) /\ (pc'[c] # pc[c] \/ inflight'[c] # inflight[c])

\* A step of the startup refresh or of the scheduler.
SchedStep ==
  \/ pc[Sched] = "boot" /\ Startup
  \/ pc[Sched] = "timer" /\ TimerFire
  \/ /\ InFlight(Sched)
     /\ pc'[Sched] # pc[Sched] \/ inflight'[Sched] # inflight[Sched]
        \/ booted' # booted

\* C19: no step of a POST /api/refresh, whatever its answer, changes
\* pollDelay or the state of the scheduler (its pending timer or its
\* refresh in flight); no step of a scheduled refresh changes the
\* manual-call log.
C19_ManualAndScheduledDisjoint ==
  [][/\ \A c \in Clients :
          ManualStep(c) => /\ pollDelay' = pollDelay
                           /\ pc'[Sched] = pc[Sched]
                           /\ booted' = booted
     /\ SchedStep => manualCalls' = manualCalls]_vars

\* The scheduler has backed off and its timer is pending, the log holds a
\* timestamp older than an hour, and a manual refresh is about to be
\* answered ok without touching pollDelay.
C19_Witness ==
  /\ pollDelay # POLL_INTERVAL_MS
  /\ pc[Sched] = "timer"
  /\ \E i \in DOMAIN manualCalls : manualCalls[i] < now - HourMs
  /\ pc[1] = "fan"
  /\ ENABLED (/\ LastProbe(1, 1, [kind |-> "null", start |-> Null])
              /\ resp'[1].status = 200
              /\ pollDelay' = pollDelay)

\* The refresh of p rejects to its caller in this step: the scheduler
\* backs off, the POST handler answers 500.
Rejected(p) ==
  IF p = Sched
  THEN /\ booted
       /\ InFlight(p)
       /\ pc'[p] = "timer"
       /\ pollDelay' > POLL_INTERVAL_MS
  ELSE /\ InFlight(p)
       /\ pc'[p] = "idle"
       /\ resp'[p].status = 500

\* C20: a non-mock refresh rejects to its caller exactly in the step in
\* which the member-list fetch throws. A failed identity fetch leads on to
\* the member-list fetch; a fan-out ends, whatever the probes did, with
\* the snapshot installed; and the detector throws only if its listing
\* call throws, never because /current or the entry details failed.
C20_OnlyMemberListFails ==
  [][/\ \A p \in Procs :
          /\ Rejected(p) <=> (pc[p] = "team" /\ (p = Sched => booted)
                               /\ RefreshFails(p))
          /\ pc[p] = "me" => pc'[p] \in {"me", "team"}
          /\ (pc[p] = "fan" /\ pc'[p] # "fan") => cache'.members = team[p]
     /\ \A list \in ListOutcomes, mine \in BOOLEAN,
          current \in CurrentOutcomes, details \in DetailOutcomes :
          /\ DetectorResult(list, mine, current, details).kind
               \in {o.kind : o \in ProbeOutcomes}
          /\ DetectorResult(list, mine, current, details).kind = "throw"
             <=> list = "throw"]_vars

\* The identity fetch has failed in every refresh, both callers have seen
\* a refresh fail on the member list, and the scheduler's refresh is about
\* to succeed although the probe of every member has thrown.
C20_Witness ==
  /\ myUserId = NullId
  /\ booted
  /\ resp[1].status = 500
  /\ pollDelay > POLL_INTERVAL_MS
  /\ pc[Sched] = "fan"
  /\ Len(team[Sched]) = Cardinality(UserIds)
  /\ results[Sched] = <<>>
  /\ ENABLED (\E k \in 1..Cardinality(UserIds) :
                /\ LastProbe(Sched, k, [kind |-> "throw", start |-> Null])
                /\ cache'.members = team[Sched]
                /\ cache'.workingUserIds = {}
                /\ pollDelay' = POLL_INTERVAL_MS)

----------------------------------------------------------------------------
(* The detector                                                            *)

\* The four conditions of an active entry, on the values of its fields.
FourWayOr(e) ==
  \/ e.duration.t \in {"undefined", "null"}
  \/ (e.duration.t = "number" /\ e.duration.n < 0)
  \/ e.end.t \in {"undefined", "null"}
  \/ e.end_time.t \in {"undefined", "null"}

\* The run that ended last took an entry of its listing for active.
FoundInListing == det.kind = "run" /\ ~det.called /\ det.ret.kind = "active"

\* C21: the detector takes an entry of the listing for active exactly when
\* its duration is absent (null or undefined), or its duration is a negative
\* number, or its end is absent, or its end_time is absent: a run finds an
\* active entry in its listing exactly when one of the entries satisfies
\* the four-way OR, for every combination of the values of these fields.
C21_ActiveIffFourWayOr ==
  det.kind = "run" =>
    (FoundInListing <=> \E i \in DOMAIN det.listing : FourWayOr(det.listing[i]))

\* A run found active an entry that is so only by its negative duration.
C21_Witness ==
  /\ FoundInListing
  /\ Len(det.listing) = 1
  /\ det.listing[1].duration = Num(0 - 5)
  /\ det.listing[1].end = Num(5000)
  /\ det.listing[1].end_time = Num(5000)

\* The start of an entry as the claim counts it: a missing one is 0.
StartAsCounted(e) ==
  IF e.start.t \notin {"undefined", "null"} THEN e.start.n
  ELSE IF e.start_time.t \notin {"undefined", "null"} THEN e.start_time.n
  ELSE 0

\* The starts of the entries of the listing can be compared as numbers.
Comparable(listing) ==
  \A i \in DOMAIN listing :
    LET e == listing[i]
    IN  /\ e.start.t \in {"undefined", "null", "number", "string"}
        /\ e.start.t \in {"undefined", "null"} =>
             e.start_time.t \in {"undefined", "null", "number", "string"}

\* The active entry of the listing with the greatest start, the last one
\* in list order among those of that start.
Latest(listing) ==
  LET A == {i \in DOMAIN listing : FourWayOr(listing[i])}
  IN  CHOOSE i \in A :
        \A j \in A :
          \/ StartAsCounted(listing[j]) < StartAsCounted(listing[i])
          \/ (StartAsCounted(listing[j]) = StartAsCounted(listing[i]) /\ j <= i)

\* C22: when the listing holds one or more active entries, the detector
\* reports the active entry with the greatest start (a missing start
\* counting as 0), in every order of the listing; among entries of equal
\* start the order of the list decides, the last of them being reported.
C22_ReportsLatestActive ==
  (/\ det.kind = "run"
   /\ Comparable(det.listing)
   /\ \E i \in DOMAIN det.listing : FourWayOr(det.listing[i]))
    => /\ det.ret.kind = "active"
       /\ det.ret.info[1].taskId = det.listing[Latest(det.listing)].task
       /\ det.ret.info[1].start =
            IF StartAsCounted(det.listing[Latest(det.listing)]) = 0 THEN Null
            ELSE StartAsCounted(det.listing[Latest(det.listing)])

\* Two entries that started last stand first in the listing, before an
\* earlier one, and the second of the two is the one reported.
C22_Witness ==
  /\ det.kind = "run"
  /\ Len(det.listing) = 3
  /\ det.listing[1].start = Num(2000) /\ det.listing[1].task = "a"
  /\ det.listing[2].start = Num(2000) /\ det.listing[2].task = "b"
  /\ det.listing[3].start = Num(1000) /\ det.listing[3].task = "a"
  /\ det.ret.kind = "active"
  /\ det.ret.info[1].taskId = "b"
  /\ det.ret.info[1].start = 2000

\* C23: the detector requests /time_entries/current exactly when the
\* listing held no active entry and the member's id is MY_USER_ID, which is
\* set; in every other case it never requests it; and when that request
\* fails the run returns null (idle) and throws nothing.
C23_CurrentOnlyForMeWhenIdle ==
  /\ det.kind = "run" =>
       /\ det.called <=>
            /\ ~ \E i \in DOMAIN det.listing : FourWayOr(det.listing[i])
            /\ det.me # NullId
            /\ det.userId = det.me
       /\ det.failed => det.ret.kind = "null"
  /\ \A p \in Procs : \A k \in DOMAIN stage[p] :
       /\ ~ \E i \in DOMAIN stage[p][k].listing :
              FourWayOr(stage[p][k].listing[i])
       /\ myUserId # NullId
       /\ team[p][k] = myUserId

\* The request to /time_entries/current of the own member failed and the
\* run returned null; a run for another member, whose listing held no
\* active entry either, returns without the request.
C23_Witness ==
  /\ det.kind = "run"
  /\ det.called
  /\ det.failed
  /\ det.ret.kind = "null"
  /\ det.userId = "1"
  /\ det.me = "1"

\* The usable start of an entry: the number its start, or else its
\* start_time, holds, unless that is 0 or no number; Null otherwise.
UsableStart(e) ==
  LET raw == IF e.start.t \notin {"undefined", "null"} THEN e.start
             ELSE e.start_time
  IN  IF raw.t \in {"number", "string"} /\ raw.n # 0 THEN raw.n ELSE Null

\* The starts the upstream's entries carry.
UpstreamStarts ==
  {UsableStart(e) :
     e \in ActivityEntries \cup StartEntries \cup SortEntries
             \cup UNION {Range(c.items) : c \in Currents}
             \cup UNION {Range(d) : d \in Details}} \ {Null}

\* C24: the detector never puts the current time in the place of a missing
\* start: an ActiveTimerInfo built from an entry without a usable start or
\* start_time has start null, and the start stored in a snapshot built
\* from the upstream is a start of the upstream or null.
C24_NoNowForMissingStart ==
  /\ (det.kind = "run" /\ det.ret.kind = "active") =>
       /\ det.ret.info[1].start # now
       /\ det.ret.info[1].start \in UpstreamStarts \cup {Null}
       /\ (Len(det.listing) = 1 /\ ~det.called) =>
            det.ret.info[1].start = UsableStart(det.listing[1])
  /\ ~mock => \A u \in DOMAIN cache.workingByUserId :
       /\ cache.workingByUserId[u].start # now
       /\ cache.workingByUserId[u].start \in UpstreamStarts \cup {Null}

\* A running entry whose start is a string that holds no number was
\* reported and stored with the start null.
C24_Witness ==
  /\ det.kind = "run"
  /\ Len(det.listing) = 1
  /\ det.listing[1].start = Text
  /\ det.ret.kind = "active"
  /\ det.ret.info[1].start = Null
  /\ det.userId \in DOMAIN cache.workingByUserId
  /\ cache.workingByUserId[det.userId].start = Null

----------------------------------------------------------------------------
(* Identity, overlap and the scheduler chain                               *)

\* C25: GET /user is requested at most once over the life of the process:
\* the startup refresh is the first refresh and attempts the identity
\* fetch, so once it has ended no refresh is awaiting GET /user.
C25_IdentityFetchedOnce ==
  (~mock /\ booted) => \A p \in Procs : pc[p] # "me"

\* C26: when a scheduled and a manual refresh are in flight at the same
\* time and both succeed, the snapshot in place afterwards is the one of
\* the refresh that completed last, in whatever order the two started and
\* fetched: the step in which a refresh returns installs the member list
\* and the working ids that this refresh fetched, whatever another refresh
\* installed before.
C26_LastCompletedWins ==
  [][\A p \in Procs :
       /\ \A k \in 1..Cardinality(UserIds), out \in OverlapOutcomes :
            LastProbe(p, k, out) =>
              /\ cache'.members = team[p]
              /\ cache'.workingUserIds = IdsOf(RunningWith(p, k, out))
              /\ cache'.lastUpdated = now
       /\ (pc[p] = "team" /\ FetchMembersOk(p, <<>>)) =>
            /\ cache'.members = <<>>
            /\ cache'.workingUserIds = {}]_vars

\* Both refreshes are in flight with different teams and each is about to
\* return; the manual one returns first and installs its team, the
\* scheduled one after it installs its own.
C26_Witness ==
  /\ pc[Sched] = "fan" /\ pc[1] = "fan"
  /\ team[Sched] = <<"1">> /\ team[1] = <<"1", "2">>
  /\ inflight[Sched] = {1} /\ inflight[1] = {2}
  /\ cache.members = <<>>
  /\ ENABLED (/\ LastProbe(1, 2, [kind |-> "active", start |-> 1000])
              /\ cache'.members = <<"1", "2">>
              /\ "2" \in cache'.workingUserIds)
  /\ ENABLED (/\ LastProbe(Sched, 1, [kind |-> "null", start |-> Null])
              /\ cache'.members = <<"1">>
              /\ cache'.workingUserIds = {})

\* C27: the scheduler is one chain that keeps itself going: once the
\* startup has passed, either a scheduled refresh is in flight or one
\* timer is pending, never both and never neither; and every completion
\* of a scheduled refresh, success or failure, arms the next timer, with
\* the pollDelay computed from that outcome.
C27_SingleSchedulerChain ==
  [][/\ booted => ((pc[Sched] = "timer") # InFlight(Sched))
     /\ (booted /\ InFlight(Sched) /\ pc'[Sched] \notin {"me", "team", "fan"}) =>
          /\ pc'[Sched] = "timer"
          /\ \/ RefreshSucceeds(Sched) /\ pollDelay' = POLL_INTERVAL_MS
             \/ \E hdr \in RetryAfterSecs :
                  /\ FetchMembersFail(Sched, hdr)
                  /\ pollDelay' = Backoff(pollDelay, hdr)
     /\ (booted /\ mock /\ TimerFire) =>
          pc'[Sched] = "timer" /\ pollDelay' = POLL_INTERVAL_MS]_vars

\* A scheduled refresh failed without a retry-after header and armed the
\* next timer with the doubled delay; that timer can fire.
C27_Witness ==
  /\ booted
  /\ pc[Sched] = "timer"
  /\ pollDelay = 2 * POLL_INTERVAL_MS
  /\ ENABLED (TimerFire /\ InFlight(Sched)')

\* C28: a start is carried forward only within one ongoing session: when
\* the snapshot in place does not list U as working and U is then probed
\* active with a falsy start, the new snapshot reports no start for U, not
\* the start of an earlier session.
C28_NoCarryAcrossSessions ==
  [][\A p \in Procs, k \in 1..Cardinality(UserIds), out \in ProbeOutcomes :
       (/\ LastProbe(p, k, out)
        /\ out.kind = "active"
        /\ ~Truthy(out.start)
        /\ team[p][k] \notin cache.workingUserIds)
         => ~Truthy(cache'.workingByUserId[team[p][k]].start)]_vars

----------------------------------------------------------------------------
(* C29, C30: bounds of the delay, the stamp of the snapshot                *)

\* C29: the scheduler's delay stays between the base interval and five
\* minutes, in every reachable state and whatever retry-after header a
\* failure carries.
C29_PollDelayWithinBounds ==
  POLL_INTERVAL_MS <= pollDelay /\ pollDelay <= MaxPollDelayMs

\* The delay is at its cap while a scheduled refresh awaits /team: a
\* failure announcing one second brings it down to the base interval and
\* no further, one announcing an hour leaves it at the cap.
C29_Witness ==
  /\ booted
  /\ pc[Sched] = "team"
  /\ pollDelay = MaxPollDelayMs
  /\ ENABLED (SchedFails(1) /\ pollDelay' = POLL_INTERVAL_MS)
  /\ ENABLED (SchedFails(3600) /\ pollDelay' = MaxPollDelayMs)

\* C30: with a clock that never runs backwards, lastUpdated of the
\* snapshot never decreases, over scheduled, manual, mock, failed and
\* overlapping refreshes, and it changes only in a step in which a refresh
\* returns successfully.
C30_LastUpdatedMonotonic ==
  [][/\ cache'.lastUpdated >= cache.lastUpdated
     /\ cache'.lastUpdated # cache.lastUpdated =>
          \E p \in Procs : RefreshSucceeds(p)]_vars

\* A refresh succeeded after the clock had advanced, the clock has
\* advanced again, and the scheduled refresh now awaiting /team can fail,
\* which leaves lastUpdated as it is.
C30_Witness ==
  /\ cache.lastUpdated > StartNow
  /\ now > cache.lastUpdated
  /\ booted
  /\ pc[Sched] = "team"
  /\ ENABLED (/\ FetchMembersFail(Sched, 300)
              /\ cache'.lastUpdated = cache.lastUpdated)

----------------------------------------------------------------------------
(* C31: the quota recovers                                                 *)

\* No manual refresh has been logged for more than 60 minutes.
QuietForAnHour ==
  \A i \in DOMAIN manualCalls : manualCalls[i] + HourMs < now

\* manualRemaining() and manualResetInMs() answer as with an empty log.
QuotaFull ==
  /\ ManualRemaining(manualCalls, now) = MANUAL_REFRESH_MAX_PER_HOUR
  /\ ManualResetInMs(manualCalls, now) = 0

\* C31: the manual quota always recovers: in every reachable state of the
\* log, once no manual refresh has been accepted for more than 60 minutes
\* manualRemaining() answers MANUAL_REFRESH_MAX_PER_HOUR and
\* manualResetInMs() answers 0; and as time passes the quota, exhausted or
\* not, is full again for good once the requests have ended.
C31_QuotaRecovers ==
  /\ [](QuietForAnHour => QuotaFull)
  /\ <>[]QuotaFull

\* The log holds MANUAL_REFRESH_MAX_PER_HOUR entries, all more than an
\* hour old and none pruned yet, and a third request had been answered 429
\* when the quota was exhausted: the quota is full again.
C31_Witness ==
  /\ Len(manualCalls) = MANUAL_REFRESH_MAX_PER_HOUR
  /\ QuietForAnHour
  /\ QuotaFull
  /\ \E c \in Clients : resp[c].status = 429

====
